---- MODULE Spec2Model ----
(***************************************************************************)
(* The Esprit-Hub gateway (esprit/apps/gateway): the SSE hub (sse.ts), the *)
(* stream route (routes/stream.ts), the event intake route                 *)
(* (routes/events.ts) and the run route (routes/run.ts).                   *)
(*                                                                         *)
(* One Node.js process, one event loop: every action below is one          *)
(* synchronous turn of a handler, from its start or from the await it was  *)
(* suspended at up to its next await or its return.                        *)
(***************************************************************************)
EXTENDS Integers, Sequences, FiniteSets, TLC

(***************************************************************************)
(* Bounds of the model.                                                    *)
(***************************************************************************)
MaxSubs == 3        \* stream requests accepted over the run, where a third matters
MaxConns == 2       \* stream requests accepted over the run
MaxRuns == 2        \* POST /api/run/:agent requests
MaxIntake == 1      \* POST /api/events requests
MaxEnv == 1         \* timer firings, transport faults and map file rewrites
MaxTurns == 6       \* handler turns and environment events in a behaviour

(***************************************************************************)
(* Values.                                                                 *)
(***************************************************************************)
Absent == "<absent>"            \* a JSON property that is not there
NotAString == "<number>"        \* a JSON value of another type than string

Npcs == {"scheduler", "lobby"}

\* sse.ts:5 and routes/events.ts:7: the event types
EventTypes == {"started", "step", "awaiting", "done", "error"}

\* the contents the agent map file (env.AGENT_MAP_FILE) takes
MapA == << [agent |-> "scheduler", npc |-> "scheduler", webhookUrl |-> "http://sim/hook/a"] >>
MapB == << [agent |-> "scheduler", npc |-> "lobby", webhookUrl |-> "http://sim/hook/b"] >>
MapFiles == { [readable |-> TRUE, rows |-> MapA],
              [readable |-> TRUE, rows |-> MapB],
              [readable |-> FALSE, rows |-> << >>] }

\* request bodies of POST /api/run/:agent
RunBodies == { [npc |-> Absent, payload |-> Absent],
               [npc |-> "", payload |-> "job"],
               [npc |-> "lobby", payload |-> "job"],
               [npc |-> NotAString, payload |-> Absent] }

\* the requests POST /api/run/:agent is made with
RunRequests == [agent : {"scheduler"}, body : RunBodies]
                   \cup [agent : {"ghost"}, body : { b \in RunBodies : b.npc = "lobby" }]

\* request bodies of POST /api/events
EventBodies == { [npc |-> "scheduler", type |-> "step", data |-> "d", ts |-> "t0"],
                 [npc |-> "lobby", type |-> "done", data |-> Absent, ts |-> Absent],
                 [npc |-> "scheduler", type |-> "bogus", data |-> "d", ts |-> Absent],
                 [npc |-> "", type |-> "step", data |-> "d", ts |-> Absent],
                 [npc |-> Absent, type |-> "done", data |-> Absent, ts |-> "t0"] }

\* the npc query parameter of GET /api/stream
StreamQueries == {Absent, "", "scheduler", "lobby"}

\* what the workflow runtime answers with a non-2xx status
BadStatuses == {503}
BodyTexts == {"busy"}
NetErrors == {"ECONNREFUSED"}

\* how the outbound call of an invocation ended, once it has
NoResult == [kind |-> "none"]

WriteError == "write EPIPE"     \* the message of the error a failed write raises

Now == "now"                    \* new Date().toISOString()

VARIABLES
    channels,   \* SseHub.channels: npc -> the replies added, in insertion order
    conn,       \* the stream replies: state, npc, transport, timer, lines written
    runs,       \* the invocations of the run handler
    mapFile,    \* the contents of env.AGENT_MAP_FILE
    last,       \* the handler turn that ran last: what it called and answered
    used,       \* how often each bounded kind of request or fault happened
    turns       \* how many turns have run

vars == << channels, conn, runs, mapFile, last, used, turns >>

(***************************************************************************)
(* SseHub (sse.ts).  channels is a Map from npc to a Set of replies; a JS  *)
(* Set iterates in insertion order, so a set is a sequence without         *)
(* repetition and the Map is a function whose domain is the keys present.  *)
(***************************************************************************)
Has(ch, npc) == npc \in DOMAIN ch

Members(ch, npc) == IF Has(ch, npc) THEN { ch[npc][k] : k \in 1..Len(ch[npc]) } ELSE {}

Without(s, res) == SelectSeq(s, LAMBDA x : x # res)

MapSet(ch, npc, s) == [k \in (DOMAIN ch) \cup {npc} |-> IF k = npc THEN s ELSE ch[k]]

MapDelete(ch, npc) == [k \in (DOMAIN ch) \ {npc} |-> ch[k]]

\* a plausible slip: the channel's set is made anew for every reply
HubAddFresh(ch, npc, res) == MapSet(ch, npc, << res >>)

\* a plausible slip: every reply is also put in the set of a catch-all channel
HubAddWildcard(ch, npc, res) ==
    LET all == IF Has(ch, "*") THEN ch["*"] ELSE << >>
        own == IF Has(ch, npc) THEN ch[npc] ELSE << >>
    IN  MapSet(MapSet(ch, "*", Append(all, res)), npc, Append(own, res))

\* sse.ts:13-16
HubAdd(ch, npc, res) ==
    LET withSet == IF ~Has(ch, npc) THEN MapSet(ch, npc, << >>) ELSE ch
    IN  IF res \in Members(withSet, npc)
        THEN withSet
        ELSE MapSet(withSet, npc, Append(withSet[npc], res))

\* a plausible slip: the set is an array and the reply is spliced out at
\* indexOf, which takes the last member out when the reply is not there
HubRemoveSplice(ch, npc, res) ==
    IF Has(ch, npc)
    THEN LET set == IF res \in Members(ch, npc)
                    THEN Without(ch[npc], res)
                    ELSE SubSeq(ch[npc], 1, Len(ch[npc]) - 1)
         IN  IF Len(set) = 0 THEN MapDelete(ch, npc) ELSE MapSet(ch, npc, set)
    ELSE ch

\* a plausible slip: the entry of a set that became empty is left in the Map
HubRemoveLeavesEntry(ch, npc, res) ==
    IF Has(ch, npc) THEN MapSet(ch, npc, Without(ch[npc], res)) ELSE ch

\* a plausible slip: the channel's entry is deleted with all its members
HubRemoveChannel(ch, npc, res) == IF Has(ch, npc) THEN MapDelete(ch, npc) ELSE ch

\* a plausible slip: the reply is not taken out of its set
HubRemoveKeeps(ch, npc, res) == ch

\* sse.ts:18-24
HubRemove(ch, npc, res) ==
    IF Has(ch, npc)
    THEN LET set == Without(ch[npc], res)
         IN  IF Len(set) = 0 THEN MapDelete(ch, npc) ELSE MapSet(ch, npc, set)
    ELSE ch

(***************************************************************************)
(* res.raw.write on a reply.  A reply whose transport is in order takes    *)
(* the line.  Once the transport has failed, and until the close handler   *)
(* has run, a write either raises or is lost: which of the two is the      *)
(* transport's choice, made when it fails (conn[c].wr).                    *)
(***************************************************************************)
Raises(cs, c) == cs[c].wr = "throw"

RawWrite(cs, c, line) ==
    IF cs[c].wr = "ok"
    THEN [cs EXCEPT ![c].out = Append(@, line)]
    ELSE cs

\* sse.ts:27
Payload(evt) == [npc |-> evt.npc, type |-> evt.type, data |-> evt.data,
                 ts |-> IF evt.ts \in {Absent, ""} THEN Now ELSE evt.ts]

\* sse.ts:31 and sse.ts:32
EventLine(evt) == [line |-> "event", type |-> evt.type]
DataLine(evt) == [line |-> "data", payload |-> Payload(evt)]

\* sse.ts:30-33, the loop from the k-th member of the set on.  The result is
\* the replies after the writes, the replies a write was called on, and
\* whether a write raised (which ends the loop: nothing catches it).
RECURSIVE WriteLoop(_, _, _, _, _)
WriteLoop(set, k, cs, evt, tried) ==
    IF k > Len(set)
    THEN [conn |-> cs, attempts |-> tried, raised |-> FALSE]
    ELSE LET res == set[k]
         IN  IF Raises(cs, res)
             THEN [conn |-> cs, attempts |-> Append(tried, res), raised |-> TRUE]
             ELSE WriteLoop(set, k + 1,
                            RawWrite(RawWrite(cs, res, EventLine(evt)), res, DataLine(evt)),
                            evt, Append(tried, res))

\* a plausible slip: the guard of sse.ts:29 is left out, and iterating over
\* a set that is not there raises
HubBroadcastNoGuard(ch, cs, evt) ==
    IF ~Has(ch, evt.npc)
    THEN [conn |-> cs, attempts |-> << >>, raised |-> TRUE]
    ELSE WriteLoop(ch[evt.npc], 1, cs, evt, << >>)

\* a plausible slip: the event is written to the replies of every channel
HubBroadcastEveryone(ch, cs, evt) ==
    WriteLoop([k \in 1..Len(cs) |-> k], 1, cs, evt, << >>)

\* sse.ts:26-34
HubBroadcast(ch, cs, evt) ==
    IF ~Has(ch, evt.npc)
    THEN [conn |-> cs, attempts |-> << >>, raised |-> FALSE]
    ELSE WriteLoop(ch[evt.npc], 1, cs, evt, << >>)

\* what one call of hub.broadcast did, as the turn's record keeps it
Call(ch, evt, r) == [evt |-> evt, subs |-> IF Has(ch, evt.npc) THEN ch[evt.npc] ELSE << >>,
                     attempts |-> r.attempts, raised |-> r.raised]


(***************************************************************************)
(* The initial state: the process has started, hub = new SseHub()          *)
(* (sse.ts:37), no request has been made.                                  *)
(***************************************************************************)
\* A handler that throws is answered by Fastify with status 500.
Answer(raised, code) == IF raised THEN 500 ELSE code

\* every turn is counted, and MaxTurns of them are taken
Turn == turns < MaxTurns /\ turns' = turns + 1

NoTurn == [op |-> "none", who |-> 0, resp |-> 0, calls |-> << >>]

Init ==
    /\ channels = << >>
    /\ conn = << >>
    /\ runs = << >>
    /\ mapFile = [readable |-> TRUE, rows |-> MapA]
    /\ last = NoTurn
    /\ used = [intake |-> 0, env |-> 0]
    /\ turns = 0

(***************************************************************************)
(* GET /api/stream (routes/stream.ts).                                     *)
(***************************************************************************)
ConnectedLine == [line |-> "comment", text |-> "connected"]
KeepAliveLine == [line |-> "comment", text |-> "keep-alive"]

\* a plausible slip: a new subscriber is sent the event broadcast last
NewReplyReplay(npc) ==
    [st |-> "open", npc |-> npc, wr |-> "ok", timer |-> TRUE,
     out |-> << ConnectedLine >> \o
             (IF last.calls # << >> /\ last.calls[1].evt.npc = npc
              THEN << EventLine(last.calls[1].evt), DataLine(last.calls[1].evt) >>
              ELSE << >>)]

\* a plausible slip: the reply is registered and nothing is written to it
NewReplySilent(npc) == [st |-> "open", npc |-> npc, wr |-> "ok", timer |-> TRUE,
                        out |-> << >>]

NewReply(npc) == [st |-> "open", npc |-> npc, wr |-> "ok", timer |-> TRUE,
                  out |-> << ConnectedLine >>]

\* a plausible slip: the check is npc === ''
NoNpcEmptyOnly(npc) == npc = ""

\* stream.ts:6: !npc
NoNpc(npc) == npc \in {Absent, ""}

\* stream.ts:5-7: no npc in the query: 400, nothing else happens
StreamReject(npc) ==
    /\ Turn
    /\ NoNpc(npc)
    /\ last' = [op |-> "stream", who |-> 0, resp |-> 400, calls |-> << >>]
    /\ UNCHANGED << channels, conn, runs, mapFile, used >>

\* stream.ts:9-28: hub.add, the ": connected" comment, the keep-alive
\* interval and the close listener, in one turn
StreamAccept(npc) ==
    /\ Turn
    /\ ~NoNpc(npc)
    /\ LET res == Len(conn) + 1
       IN  /\ conn' = Append(conn, NewReply(npc))
           /\ channels' = HubAdd(channels, npc, res)
           /\ last' = [op |-> "stream", who |-> res, resp |-> 0, calls |-> << >>]
    /\ UNCHANGED << runs, mapFile, used >>

\* stream.ts:9-28, for one of the first MaxConns stream requests
StreamOpen(npc) ==
    /\ Len(conn) < MaxConns
    /\ StreamAccept(npc)

\* stream.ts:9-28, for a stream request beyond the first MaxConns
StreamOpenMore(npc) ==
    /\ Len(conn) >= MaxConns
    /\ Len(conn) < MaxSubs
    /\ StreamAccept(npc)

\* stream.ts:19-21: the interval fires; a write that raises is caught
KeepAlive(res) ==
    /\ Turn
    /\ res \in 1..Len(conn)
    /\ conn[res].timer
    /\ used.env < MaxEnv
    /\ conn' = IF Raises(conn, res) THEN conn ELSE RawWrite(conn, res, KeepAliveLine)
    /\ used' = [used EXCEPT !.env = @ + 1]
    /\ last' = [op |-> "tick", who |-> res, resp |-> 0, calls |-> << >>]
    /\ UNCHANGED << channels, runs, mapFile >>

\* a plausible slip: the listener leaves the interval running
CloseListenerKeepsTimer(res) ==
    /\ res \in 1..Len(conn)
    /\ conn[res].st = "open"
    /\ conn' = [conn EXCEPT ![res].st = "closed"]
    /\ channels' = HubRemove(channels, conn[res].npc, res)
    /\ last' = [op |-> "close", who |-> res, resp |-> 0, calls |-> << >>]
    /\ UNCHANGED << runs, mapFile, used >>

\* stream.ts:23-26: the listener of the request's close event
CloseListener(res) ==
    /\ res \in 1..Len(conn)
    /\ conn[res].st = "open"
    /\ conn' = [conn EXCEPT ![res].st = "closed", ![res].timer = FALSE]
    /\ channels' = HubRemove(channels, conn[res].npc, res)
    /\ last' = [op |-> "close", who |-> res, resp |-> 0, calls |-> << >>]
    /\ UNCHANGED << runs, mapFile, used >>

\* stream.ts:23-26: the client closes the connection and the close event
\* is delivered
StreamClose(res) ==
    /\ Turn
    /\ CloseListener(res)

\* stream.ts:23-26: the close event of a transport that has failed is
\* delivered; Node.js owes this event, so it is outside the count of turns
CloseDelivered(res) ==
    /\ res \in 1..Len(conn)
    /\ conn[res].wr # "ok"
    /\ turns' = turns
    /\ CloseListener(res)

\* The transport of an open reply fails; its close event has not been
\* delivered yet, so the reply is still in the hub.
TransportFault(res, how) ==
    /\ Turn
    /\ res \in 1..Len(conn)
    /\ conn[res].st = "open"
    /\ conn[res].wr = "ok"
    /\ how \in {"throw", "drop"}
    /\ used.env < MaxEnv
    /\ conn' = [conn EXCEPT ![res].wr = how]
    /\ used' = [used EXCEPT !.env = @ + 1]
    /\ last' = [op |-> "fault", who |-> res, resp |-> 0, calls |-> << >>]
    /\ UNCHANGED << channels, runs, mapFile >>

(***************************************************************************)
(* POST /api/events (routes/events.ts).                                    *)
(***************************************************************************)
\* events.ts:5-9: what EventSchema accepts
\* a plausible slip: the schema takes any string as the type
EventSchemaAnyType(body) == body.npc \notin {Absent, NotAString, ""}

EventSchemaOk(body) ==
    /\ body.npc \notin {Absent, NotAString, ""}
    /\ body.type \in EventTypes

\* events.ts:17: parsed.data holds the keys of the schema and no other
EventSchemaData(body) ==
    [npc |-> body.npc, type |-> body.type, data |-> [json |-> body.data], ts |-> Absent]

\* a plausible slip: a reply whose write raises is taken out of the registry
\* by the broadcast
PostEventsPrunes(body) ==
    /\ Turn
    /\ used.intake < MaxIntake
    /\ used' = [used EXCEPT !.intake = @ + 1]
    /\ IF ~EventSchemaOk(body)
       THEN /\ last' = [op |-> "events", who |-> 0, resp |-> 400, calls |-> << >>]
            /\ UNCHANGED << conn, channels >>
       ELSE LET evt == EventSchemaData(body)
                r == HubBroadcast(channels, conn, evt)
            IN  /\ conn' = r.conn
                /\ channels' = IF r.raised
                               THEN HubRemove(channels, evt.npc, r.attempts[Len(r.attempts)])
                               ELSE channels
                /\ last' = [op |-> "events", who |-> 0,
                            resp |-> Answer(r.raised, 200),
                            calls |-> << Call(channels, evt, r) >>]
    /\ UNCHANGED << runs, mapFile >>

\* a plausible slip: the outbound call is made synchronously, so no other
\* handler runs until it has resolved
PostEventsWaits(body) ==
    /\ \A inv \in 1..Len(runs) : runs[inv].pc \notin {"fetch", "text"}
    /\ Turn
    /\ used.intake < MaxIntake
    /\ used' = [used EXCEPT !.intake = @ + 1]
    /\ IF ~EventSchemaOk(body)
       THEN /\ last' = [op |-> "events", who |-> 0, resp |-> 400, calls |-> << >>]
            /\ UNCHANGED conn
       ELSE LET evt == EventSchemaData(body)
                r == HubBroadcast(channels, conn, evt)
            IN  /\ conn' = r.conn
                /\ last' = [op |-> "events", who |-> 0,
                            resp |-> Answer(r.raised, 200),
                            calls |-> << Call(channels, evt, r) >>]
    /\ UNCHANGED << channels, runs, mapFile >>

\* events.ts:12-20
PostEvents(body) ==
    /\ Turn
    /\ used.intake < MaxIntake
    /\ used' = [used EXCEPT !.intake = @ + 1]
    /\ IF ~EventSchemaOk(body)
       THEN /\ last' = [op |-> "events", who |-> 0, resp |-> 400, calls |-> << >>]
            /\ UNCHANGED conn
       ELSE LET evt == EventSchemaData(body)
                r == HubBroadcast(channels, conn, evt)
            IN  /\ conn' = r.conn
                /\ last' = [op |-> "events", who |-> 0,
                            resp |-> Answer(r.raised, 200),
                            calls |-> << Call(channels, evt, r) >>]
    /\ UNCHANGED << channels, runs, mapFile >>

(***************************************************************************)
(* POST /api/run/:agent (routes/run.ts).  The handler awaits three times:  *)
(* fs.readFile (run.ts:17), fetch (run.ts:29) and res.text() (run.ts:35);  *)
(* pc names the await an invocation is suspended at.  No timer and no      *)
(* abort signal is attached to the fetch: an invocation suspended at it is *)
(* resumed by the workflow runtime's answer or by a network error only.    *)
(***************************************************************************)
\* run.ts:7-10: what RunBody.parse accepts
RunBodyOk(body) == body.npc # NotAString

\* run.ts:17-18: an unreadable file reads as '[]'
\* a plausible slip: a file that cannot be read falls back to a built-in row
MappingsDefault(file) == IF file.readable THEN file.rows ELSE MapA

Mappings(file) == IF file.readable THEN file.rows ELSE << >>

\* a plausible slip: the first row is taken whatever its agent
FindFirstRow(mappings, agent) == IF Len(mappings) > 0 THEN 1 ELSE 0

\* run.ts:19: Array.prototype.find, as the index of the first match or 0
Find(mappings, agent) ==
    LET hits == { k \in 1..Len(mappings) : mappings[k].agent = agent }
    IN  IF hits = {} THEN 0 ELSE CHOOSE k \in hits : \A j \in hits : k <= j

\* run.ts:22
RunNpc(body, row) == IF body.npc \in {Absent, ""} THEN row.npc ELSE body.npc

\* a plausible slip: the started event goes out under the agent's name
StartedEvtOnAgent(npc, agent) ==
    [npc |-> agent, type |-> "started", data |-> [agent |-> agent, at |-> Now], ts |-> Absent]

\* run.ts:25
StartedEvt(npc, agent) ==
    [npc |-> npc, type |-> "started", data |-> [agent |-> agent, at |-> Now], ts |-> Absent]

\* a plausible slip: the payload is passed on as it came, absent or not
PostBodyRaw(body, npc, agent) ==
    [payload |-> body.payload, npc |-> npc, agent |-> agent]

\* run.ts:32
PostBody(body, npc, agent) ==
    [payload |-> IF body.payload = Absent THEN "{}" ELSE body.payload,
     npc |-> npc, agent |-> agent]

\* run.ts:36
StatusEvt(npc, agent, status, txt) ==
    [npc |-> npc, type |-> "error",
     data |-> [agent |-> agent, status |-> status, txt |-> txt], ts |-> Absent]

\* a plausible slip: the error event goes out under the agent's name
MessageEvtOnAgent(npc, agent, message) ==
    [npc |-> agent, type |-> "error",
     data |-> [agent |-> agent, message |-> message], ts |-> Absent]

\* run.ts:40
MessageEvt(npc, agent, message) ==
    [npc |-> npc, type |-> "error",
     data |-> [agent |-> agent, message |-> message], ts |-> Absent]

\* the side effects of an invocation, as its record keeps them in order
FxBroadcast(evt) == [fx |-> "broadcast", evt |-> evt]
FxPost(url, body) == [fx |-> "post", url |-> url, body |-> body]

\* a plausible slip: fetch is called before the started event is broadcast
LookupFxPostFirst(evt, post, raised) == << post, FxBroadcast(evt) >>

\* run.ts:25-33: hub.broadcast, then fetch; a broadcast that raises leaves
\* the handler before fetch is called
LookupFx(evt, post, raised) ==
    IF raised THEN << FxBroadcast(evt) >> ELSE << FxBroadcast(evt), post >>

NoRow == [agent |-> Absent, npc |-> Absent, webhookUrl |-> Absent]

NewRun(agent, body) ==
    [agent |-> agent, body |-> body, pc |-> "readFile", row |-> NoRow,
     npc |-> Absent, resp |-> 0, fx |-> << >>, res |-> NoResult]

\* run.ts:13-17: the body is parsed and the read of the map file is started
RunRequest(agent, body) ==
    /\ Turn
    /\ Len(runs) < MaxRuns
    /\ LET inv == Len(runs) + 1
           r == NewRun(agent, body)
       IN  IF RunBodyOk(body)
           THEN /\ runs' = Append(runs, r)
                /\ last' = [op |-> "run", who |-> inv, resp |-> 0, calls |-> << >>]
           ELSE /\ runs' = Append(runs, [r EXCEPT !.pc = "done", !.resp = Answer(TRUE, 0)])
                /\ last' = [op |-> "run", who |-> inv, resp |-> Answer(TRUE, 0),
                            calls |-> << >>]
    /\ UNCHANGED << channels, conn, mapFile, used >>

\* run.ts:17-33: the file has been read; the lookup, the started event and
\* the call of fetch
RunLookup(inv) ==
    /\ Turn
    /\ inv \in 1..Len(runs)
    /\ runs[inv].pc = "readFile"
    /\ LET r == runs[inv]
           mappings == Mappings(mapFile)
           k == Find(mappings, r.agent)
       IN  IF k = 0
           THEN /\ runs' = [runs EXCEPT ![inv].pc = "done", ![inv].resp = 404]
                /\ last' = [op |-> "run", who |-> inv, resp |-> 404, calls |-> << >>]
                /\ UNCHANGED conn
           ELSE LET row == mappings[k]
                    npc == RunNpc(r.body, row)
                    evt == StartedEvt(npc, r.agent)
                    b == HubBroadcast(channels, conn, evt)
                    post == FxPost(row.webhookUrl, PostBody(r.body, npc, r.agent))
                IN  /\ conn' = b.conn
                    /\ runs' = [runs EXCEPT ![inv] =
                          [r EXCEPT !.row = row, !.npc = npc,
                                    !.pc = IF b.raised THEN "done" ELSE "fetch",
                                    !.resp = IF b.raised THEN Answer(TRUE, 0) ELSE 0,
                                    !.fx = LookupFx(evt, post, b.raised)]]
                    /\ last' = [op |-> "run", who |-> inv,
                                resp |-> IF b.raised THEN Answer(TRUE, 0) ELSE 0,
                                calls |-> << Call(channels, evt, b) >>]
    /\ UNCHANGED << channels, mapFile, used >>

\* run.ts:39-42: the catch block, entered with the error's message after the
\* side effects fxBefore and the hub calls callsBefore of this turn
Catch(inv, message, fxBefore, callsBefore, cs, res) ==
    LET r == runs[inv]
        evt == MessageEvt(r.npc, r.agent, message)
        b == HubBroadcast(channels, cs, evt)
    IN  /\ conn' = b.conn
        /\ runs' = [runs EXCEPT ![inv] =
              [r EXCEPT !.pc = "done", !.resp = Answer(b.raised, 500), !.res = res,
                        !.fx = fxBefore \o << FxBroadcast(evt) >>]]
        /\ last' = [op |-> "run", who |-> inv, resp |-> Answer(b.raised, 500),
                    calls |-> callsBefore \o << Call(channels, evt, b) >>]

\* a plausible slip: the gateway announces completion itself
FetchOkEmitsDone(inv) ==
    /\ Turn
    /\ inv \in 1..Len(runs)
    /\ runs[inv].pc = "fetch"
    /\ LET r == runs[inv]
           evt == [npc |-> r.npc, type |-> "done", data |-> [agent |-> r.agent],
                   ts |-> Absent]
           b == HubBroadcast(channels, conn, evt)
       IN  /\ conn' = b.conn
           /\ runs' = [runs EXCEPT ![inv] =
                 [r EXCEPT !.pc = "done", !.resp = 200, !.res = [kind |-> "ok"],
                           !.fx = r.fx \o << FxBroadcast(evt) >>]]
           /\ last' = [op |-> "run", who |-> inv, resp |-> 200,
                       calls |-> << Call(channels, evt, b) >>]
    /\ UNCHANGED << channels, mapFile, used >>

\* run.ts:29-34 and 44: fetch fulfils with a 2xx response
FetchOk(inv) ==
    /\ Turn
    /\ inv \in 1..Len(runs)
    /\ runs[inv].pc = "fetch"
    /\ runs' = [runs EXCEPT ![inv].pc = "done", ![inv].resp = 200,
                            ![inv].res = [kind |-> "ok"]]
    /\ last' = [op |-> "run", who |-> inv, resp |-> 200, calls |-> << >>]
    /\ UNCHANGED << channels, conn, mapFile, used >>

\* run.ts:29-35: fetch fulfils with another status; res.text() is awaited
FetchNotOk(inv, status) ==
    /\ Turn
    /\ inv \in 1..Len(runs)
    /\ runs[inv].pc = "fetch"
    /\ runs' = [runs EXCEPT ![inv].pc = "text",
                            ![inv].res = [kind |-> "headers", status |-> status]]
    /\ last' = [op |-> "run", who |-> inv, resp |-> 0, calls |-> << >>]
    /\ UNCHANGED << channels, conn, mapFile, used >>

\* run.ts:35-37: the response body has been read.  The broadcast is inside
\* the try block: if it raises, the catch block runs.
TextRead(inv, txt) ==
    /\ Turn
    /\ inv \in 1..Len(runs)
    /\ runs[inv].pc = "text"
    /\ LET r == runs[inv]
           res == [kind |-> "status", status |-> r.res.status, txt |-> txt]
           evt == StatusEvt(r.npc, r.agent, r.res.status, txt)
           b == HubBroadcast(channels, conn, evt)
       IN  IF b.raised
           THEN Catch(inv, WriteError, r.fx \o << FxBroadcast(evt) >>,
                      << Call(channels, evt, b) >>, b.conn, res)
           ELSE /\ conn' = b.conn
                /\ runs' = [runs EXCEPT ![inv] =
                      [r EXCEPT !.pc = "done", !.resp = 502, !.res = res,
                                !.fx = r.fx \o << FxBroadcast(evt) >>]]
                /\ last' = [op |-> "run", who |-> inv, resp |-> 502,
                            calls |-> << Call(channels, evt, b) >>]
    /\ UNCHANGED << channels, mapFile, used >>

\* run.ts:35 and 39-42: reading the response body fails
TextFails(inv, message) ==
    /\ Turn
    /\ inv \in 1..Len(runs)
    /\ runs[inv].pc = "text"
    /\ Catch(inv, message, runs[inv].fx, << >>, conn,
             [kind |-> "cut", status |-> runs[inv].res.status, message |-> message])
    /\ UNCHANGED << channels, mapFile, used >>

\* run.ts:29 and 39-42: fetch rejects (the call could not be completed)
FetchFails(inv, message) ==
    /\ Turn
    /\ inv \in 1..Len(runs)
    /\ runs[inv].pc = "fetch"
    /\ Catch(inv, message, runs[inv].fx, << >>, conn,
             [kind |-> "reject", message |-> message])
    /\ UNCHANGED << channels, mapFile, used >>

\* The agent map file is rewritten while the process runs.
MapFileWrite(file) ==
    /\ Turn
    /\ used.env < MaxEnv
    /\ file # mapFile
    /\ mapFile' = file
    /\ used' = [used EXCEPT !.env = @ + 1]
    /\ last' = [op |-> "cfg", who |-> 0, resp |-> 0, calls |-> << >>]
    /\ UNCHANGED << channels, conn, runs >>

(***************************************************************************)
(* The gateway: any handler turn or environment event.                     *)
(***************************************************************************)
Next ==
    \/ \E npc \in StreamQueries : StreamReject(npc)
    \/ \E npc \in StreamQueries : StreamOpen(npc)
    \/ \E res \in 1..MaxConns : KeepAlive(res)
    \/ \E res \in 1..MaxConns : StreamClose(res)
    \/ \E res \in 1..MaxConns, how \in {"throw", "drop"} : TransportFault(res, how)
    \/ \E body \in EventBodies : PostEvents(body)
    \/ \E req \in RunRequests : RunRequest(req.agent, req.body)
    \/ \E inv \in 1..MaxRuns : RunLookup(inv)
    \/ \E inv \in 1..MaxRuns : FetchOk(inv)
    \/ \E inv \in 1..MaxRuns, status \in BadStatuses : FetchNotOk(inv, status)
    \/ \E inv \in 1..MaxRuns, txt \in BodyTexts : TextRead(inv, txt)
    \/ \E inv \in 1..MaxRuns, message \in NetErrors : TextFails(inv, message)
    \/ \E inv \in 1..MaxRuns, message \in NetErrors : FetchFails(inv, message)
    \/ \E file \in MapFiles : MapFileWrite(file)

Spec == Init /\ [][Next]_vars

TypeOK ==
    /\ DOMAIN channels \subseteq Npcs
    /\ Len(conn) <= MaxSubs
    /\ Len(runs) <= MaxRuns
    /\ turns \in 0..MaxTurns

\* The same gateway, with the scheduling Node.js guarantees: a handler whose
\* awaited file read has completed is resumed.  Nothing is assumed of the
\* workflow runtime: it may answer a POST late or never.
FairSpec == Spec /\ \A inv \in 1..MaxRuns : WF_vars(RunLookup(inv))

\* The gateway with the close events Node.js delivers: the close event of a
\* failed transport reaches its listener.  Nothing is assumed of clients.
LiveNext == Next \/ \E res \in 1..MaxConns : CloseDelivered(res)

LiveSpec ==
    Init /\ [][LiveNext]_vars /\ \A res \in 1..MaxConns : WF_vars(CloseDelivered(res))

\* The gateway with room for more subscribers than MaxConns: what a reply in
\* the middle of a channel's set does to the replies after it needs three.
MoreNext ==
    \/ Next
    \/ \E npc \in StreamQueries : StreamOpenMore(npc)
    \/ \E res \in (MaxConns + 1)..MaxSubs : KeepAlive(res)
    \/ \E res \in (MaxConns + 1)..MaxSubs : StreamClose(res)
    \/ \E res \in (MaxConns + 1)..MaxSubs, how \in {"throw", "drop"} : TransportFault(res, how)

MoreSpec == Init /\ [][MoreNext]_vars

(***************************************************************************)
(* The vocabulary of the properties.                                       *)
(***************************************************************************)
\* the Agent Mapping Store holds agent when the file reads as it does
InStore(file, agent) ==
    file.readable /\ \E k \in 1..Len(file.rows) : file.rows[k].agent = agent

Invocations == 1..Len(runs)

\* the events an invocation has broadcast and the outbound calls it has made
Broadcasts(inv) == SelectSeq(runs[inv].fx, LAMBDA e : e.fx = "broadcast")
Posts(inv) == SelectSeq(runs[inv].fx, LAMBDA e : e.fx = "post")
NumStarted(inv) == Len(SelectSeq(Broadcasts(inv), LAMBDA e : e.evt.type = "started"))

\* the lines a reply in good order has been sent
GotEvent(res, type) ==
    \E k \in 1..Len(conn[res].out) :
        conn[res].out[k].line = "event" /\ conn[res].out[k].type = type

(***************************************************************************)
(* C1.  A run request (with a body RunBody accepts) for an agent that is   *)
(* not in the mapping store is answered 404 in the turn that looks it up,  *)
(* and that turn calls hub.broadcast for no event, calls no webhook, and   *)
(* leaves the hub's registry and every subscriber's stream as they were;   *)
(* an invocation answered 404 has no side effect at all.                   *)
(***************************************************************************)
C1_UnknownAgent ==
    /\ [][\A inv \in Invocations :
            (/\ runs[inv].pc = "readFile"
             /\ runs'[inv].pc # "readFile"
             /\ ~InStore(mapFile, runs[inv].agent))
            => /\ runs'[inv].pc = "done"
               /\ runs'[inv].resp = 404
               /\ runs'[inv].fx = << >>
               /\ last'.calls = << >>
               /\ channels' = channels
               /\ conn' = conn]_vars
    /\ [](\A inv \in Invocations : runs[inv].resp = 404 => runs[inv].fx = << >>)

\* an unknown agent was asked for, with a channel that has a subscriber
C1_Witness ==
    \E inv \in Invocations :
        /\ runs[inv].agent = "ghost"
        /\ runs[inv].resp = 404
        /\ Has(channels, runs[inv].body.npc)

C3_MappedChannel ==
    \A inv \in Invocations :
        \A k \in 1..Len(Broadcasts(inv)) :
            Broadcasts(inv)[k].evt.npc = runs[inv].row.npc

(***************************************************************************)
(* C4.  An invocation whose outbound call came back with a non-2xx status  *)
(* and a body has broadcast, after started, one error event on the same    *)
(* channel with that status and body, and has answered 502.  A subscriber  *)
(* whose write raises makes the broadcast at run.ts:36 raise into the      *)
(* catch block (see C9): a second error event goes out and the answer is   *)
(* 500.                                                                    *)
(***************************************************************************)
C4_StatusFailure ==
    \A inv \in Invocations :
        runs[inv].res.kind = "status" =>
            /\ runs[inv].resp = 502
            /\ Len(Broadcasts(inv)) = 2
            /\ Broadcasts(inv)[2].evt.type = "error"
            /\ Broadcasts(inv)[2].evt.npc = Broadcasts(inv)[1].evt.npc
            /\ Broadcasts(inv)[2].evt.data =
                  [agent |-> runs[inv].agent, status |-> runs[inv].res.status,
                   txt |-> runs[inv].res.txt]

(***************************************************************************)
(* C5.  An invocation whose outbound call could not be completed (fetch    *)
(* rejected, or the response broke off while its body was read) has        *)
(* broadcast, after started and on the same channel, one error event       *)
(* carrying the error's message, and has answered 500; the turn that       *)
(* answered is the one that called hub.broadcast for that event.           *)
(***************************************************************************)
C5_NetworkFailure ==
    \A inv \in Invocations :
        runs[inv].res.kind \in {"reject", "cut"} =>
            /\ runs[inv].pc = "done"
            /\ runs[inv].resp = 500
            /\ Len(Broadcasts(inv)) = 2
            /\ Broadcasts(inv)[2].evt.type = "error"
            /\ Broadcasts(inv)[2].evt.npc = Broadcasts(inv)[1].evt.npc
            /\ Broadcasts(inv)[2].evt.data =
                  [agent |-> runs[inv].agent, message |-> runs[inv].res.message]
            /\ (last.op = "run" /\ last.who = inv) =>
                  /\ Len(last.calls) = 1
                  /\ last.calls[1].evt = Broadcasts(inv)[2].evt
                  /\ last.resp = 500

\* the call was refused, and a subscriber of the run's channel was sent
\* started and then error
C5_Witness ==
    \E inv \in Invocations, res \in 1..Len(conn) :
        /\ runs[inv].res.kind = "reject"
        /\ runs[inv].body.npc = "lobby"
        /\ conn[res].npc = "lobby"
        /\ GotEvent(res, "started")
        /\ GotEvent(res, "error")

(***************************************************************************)
(* C6.  An invocation whose outbound call came back 2xx has answered 200   *)
(* and has broadcast one event, started: the turn that answered called     *)
(* hub.broadcast for nothing.                                              *)
(***************************************************************************)
C6_Success ==
    \A inv \in Invocations :
        runs[inv].res.kind = "ok" =>
            /\ runs[inv].pc = "done"
            /\ runs[inv].resp = 200
            /\ Len(Broadcasts(inv)) = 1
            /\ Broadcasts(inv)[1].evt.type = "started"
            /\ (last.op = "run" /\ last.who = inv) =>
                  last.calls = << >> /\ last.resp = 200

\* the run succeeded while a subscriber of its channel was listening
C6_Witness ==
    \E inv \in Invocations, res \in 1..Len(conn) :
        /\ runs[inv].res.kind = "ok"
        /\ conn[res].npc = runs[inv].npc
        /\ conn[res].out = << ConnectedLine, EventLine(Broadcasts(inv)[1].evt),
                              DataLine(Broadcasts(inv)[1].evt) >>

(***************************************************************************)
(* C7.  An invocation that is waiting for the answer to its outbound POST  *)
(* eventually stops waiting (and then has broadcast an error event and     *)
(* answered), even if the workflow runtime never answers.  The fetch at    *)
(* run.ts:29 has no timeout: nothing but the runtime resumes it.           *)
(***************************************************************************)
C7_OutboundBounded ==
    \A inv \in 1..MaxRuns :
        (inv \in Invocations /\ runs[inv].pc = "fetch")
            ~> (inv \in Invocations /\ runs[inv].pc = "done" /\ runs[inv].resp # 0)

(***************************************************************************)
(* C8.  A call of hub.broadcast for a channel with N >= 1 replies calls    *)
(* write on each of the N, once each.  A write that raises ends the loop   *)
(* of sse.ts:30-33 (see C9), and the replies after it are not written to.  *)
(***************************************************************************)
C8_ExactlyN ==
    \A k \in 1..Len(last.calls) :
        Len(last.calls[k].subs) >= 1 => last.calls[k].attempts = last.calls[k].subs

(***************************************************************************)
(* C9.  hub.broadcast never raises, and a reply whose write fails does not *)
(* keep the event from the channel's other replies.  sse.ts:30-33 catches  *)
(* nothing.                                                                *)
(***************************************************************************)
C9_Independent ==
    \A k \in 1..Len(last.calls) :
        /\ ~last.calls[k].raised
        /\ \A j \in 1..Len(last.calls[k].subs) :
              \E i \in 1..Len(last.calls[k].attempts) :
                  last.calls[k].attempts[i] = last.calls[k].subs[j]

(***************************************************************************)
(* C10.  A subscriber's transport fault does not reach the producer: a     *)
(* valid intake request is answered 200, and a run whose started event     *)
(* was broadcast goes on to its outbound call.  The error hub.broadcast    *)
(* raises (see C9) leaves events.ts:18 and run.ts:25 uncaught.             *)
(***************************************************************************)
C10_NotPropagated ==
    /\ (last.op = "events" /\ last.calls # << >>) => last.resp = 200
    /\ (last.op = "run" /\ last.calls # << >> /\ last.calls[1].evt.type = "started")
          => /\ runs[last.who].pc = "fetch"
             /\ Len(Posts(last.who)) = 1

\* the lines a step adds to the stream of reply res (all of them, for a
\* reply the step creates)
NewLines(res) ==
    LET before == IF res <= Len(conn) THEN Len(conn[res].out) ELSE 0
    IN  SubSeq(conn'[res].out, before + 1, Len(conn'[res].out))

\* line is one of the two lines hub.broadcast writes for evt
LineOf(line, evt) == line = EventLine(evt) \/ line = DataLine(evt)

(***************************************************************************)
(* C11.  A call of hub.broadcast for a channel with no reply registered    *)
(* does not raise and calls write on no reply; a turn whose broadcasts     *)
(* all go to such channels leaves every reply's stream and the registry    *)
(* as they were, and the registry has no entry for the channel after it.   *)
(***************************************************************************)
C11_NoSubscribers ==
    /\ [](\A k \in 1..Len(last.calls) :
            last.calls[k].subs = << >> =>
                /\ ~last.calls[k].raised
                /\ last.calls[k].attempts = << >>
                /\ ~Has(channels, last.calls[k].evt.npc))
    /\ [][(/\ last'.calls # << >>
           /\ \A k \in 1..Len(last'.calls) : ~Has(channels, last'.calls[k].evt.npc))
          => conn' = conn /\ channels' = channels]_vars

\* an intake event went to a channel nobody streams while another channel
\* has a subscriber
C11_Witness ==
    /\ last.op = "events"
    /\ last.calls # << >>
    /\ last.calls[1].subs = << >>
    /\ last.resp = 200
    /\ channels # << >>

(***************************************************************************)
(* C12.  No replay.  A reply that a step registers starts with the         *)
(* connected comment and nothing else, and every event line a step adds    *)
(* to a reply's stream belongs to an event hub.broadcast is called for in  *)
(* that same step, with the reply already registered before the step.      *)
(***************************************************************************)
C12_NoReplay ==
    [][\A res \in 1..Len(conn') :
          /\ res > Len(conn) => conn'[res].out = << ConnectedLine >>
          /\ \A k \in 1..Len(NewLines(res)) :
                NewLines(res)[k].line # "comment" =>
                    /\ res <= Len(conn)
                    /\ res \in Members(channels, conn[res].npc)
                    /\ \E c \in 1..Len(last'.calls) :
                          LineOf(NewLines(res)[k], last'.calls[c].evt)]_vars

\* a started event went out on a channel, and the reply that has just
\* registered on that channel has the connected comment only
C12_Witness ==
    /\ last.op = "stream"
    /\ last.who # 0
    /\ conn[last.who].out = << ConnectedLine >>
    /\ \E inv \in Invocations :
          NumStarted(inv) = 1 /\ runs[inv].npc = conn[last.who].npc

(***************************************************************************)
(* C13.  Channel isolation.  Every data line in a reply's stream carries   *)
(* the channel the reply registered on, and a call of hub.broadcast calls  *)
(* write only on replies registered on the event's channel.                *)
(***************************************************************************)
C13_ChannelIsolation ==
    /\ \A res \in 1..Len(conn) :
          \A k \in 1..Len(conn[res].out) :
              conn[res].out[k].line = "data" =>
                  conn[res].out[k].payload.npc = conn[res].npc
    /\ \A c \in 1..Len(last.calls) :
          \A i \in 1..Len(last.calls[c].attempts) :
              conn[last.calls[c].attempts[i]].npc = last.calls[c].evt.npc

\* two replies on two channels; one has been sent an event, the other has
\* the connected comment only
C13_Witness ==
    \E a, b \in 1..Len(conn) :
        /\ conn[a].npc # conn[b].npc
        /\ conn[a].st = "open" /\ conn[b].st = "open"
        /\ \E k \in 1..Len(conn[a].out) : conn[a].out[k].line = "data"
        /\ conn[b].out = << ConnectedLine >>

\* reply res is in the hub's registry
Registered(res) == res \in Members(channels, conn[res].npc)

(***************************************************************************)
(* C14.  A reply whose transport has failed is eventually out of the       *)
(* registry with its keep-alive timer cancelled; the close listener does   *)
(* both in one step, for a graceful close as well, and no closed reply is  *)
(* registered or has a timer.                                              *)
(***************************************************************************)
C14_ClosedIsRemoved ==
    /\ \A res \in 1..MaxConns :
          (res <= Len(conn) /\ conn[res].st = "open" /\ conn[res].wr # "ok")
              ~> (res <= Len(conn) /\ ~Registered(res) /\ ~conn[res].timer)
    /\ [][\A res \in 1..Len(conn) :
            (conn[res].st = "open" /\ conn'[res].st = "closed")
                => ~Registered(res)' /\ ~conn'[res].timer]_vars
    /\ [](\A res \in 1..Len(conn) :
            conn[res].st = "closed" => ~Registered(res) /\ ~conn[res].timer)

\* a transport failed, its close event was delivered, and the other reply
\* of the channel is still registered
C14_Witness ==
    \E res, other \in 1..Len(conn) :
        /\ conn[res].st = "closed"
        /\ conn[res].wr # "ok"
        /\ ~Registered(res)
        /\ other # res
        /\ conn[other].npc = conn[res].npc
        /\ Registered(other)

(***************************************************************************)
(* C15.  Once a reply of a channel has been closed and unregistered, a     *)
(* broadcast on that channel calls write on no closed reply, does not      *)
(* raise, and calls write on every reply still registered.  The first      *)
(* holds; hub.broadcast raises when a remaining reply's write raises (see  *)
(* C9).                                                                    *)
(***************************************************************************)
C15_AfterDisconnect ==
    \A k \in 1..Len(last.calls) :
        (\E gone \in 1..Len(conn) :
            conn[gone].st = "closed" /\ conn[gone].npc = last.calls[k].evt.npc)
        => /\ \A i \in 1..Len(last.calls[k].attempts) :
                 conn[last.calls[k].attempts[i]].st # "closed"
           /\ ~last.calls[k].raised
           /\ \A j \in 1..Len(last.calls[k].subs) :
                 \E i \in 1..Len(last.calls[k].attempts) :
                     last.calls[k].attempts[i] = last.calls[k].subs[j]

\* the replies a call of SseHub.remove may name: those there are, and one
\* that never registered
Replies == 1..(MaxConns + 1)

(***************************************************************************)
(* C16.  SseHub.remove is idempotent: on every registry the hub reaches,   *)
(* for every channel and reply, removing twice gives the registry that     *)
(* removing once gives, and removing a reply that is not in the channel's  *)
(* set (the channel may have no entry) leaves the registry as it is.       *)
(***************************************************************************)
C16_RemoveIdempotent ==
    \A npc \in Npcs : \A res \in Replies :
        /\ HubRemove(HubRemove(channels, npc, res), npc, res) = HubRemove(channels, npc, res)
        /\ res \notin Members(channels, npc) => HubRemove(channels, npc, res) = channels

\* the listener has removed a reply; its channel still has an entry, and
\* another channel has none
C16_Witness ==
    /\ \E res \in 1..Len(conn) :
          /\ conn[res].st = "closed"
          /\ Has(channels, conn[res].npc)
          /\ HubRemove(channels, conn[res].npc, res) = channels
    /\ \E npc \in Npcs : ~Has(channels, npc)

(***************************************************************************)
(* C17.  The registry holds no entry with an empty set: a channel has an   *)
(* entry exactly when a reply is registered on it, and the replies         *)
(* registered on it are the open replies of the streams on that channel.   *)
(***************************************************************************)
C17_NoEmptyEntry ==
    /\ \A npc \in DOMAIN channels : Len(channels[npc]) >= 1
    /\ \A npc \in Npcs :
          /\ Has(channels, npc) <=>
                \E res \in 1..Len(conn) : conn[res].st = "open" /\ conn[res].npc = npc
          /\ Members(channels, npc) =
                { res \in 1..Len(conn) : conn[res].st = "open" /\ conn[res].npc = npc }

\* the only reply of a channel has closed after a broadcast reached it, and
\* the other channel has a reply
C17_Witness ==
    \E res, other \in 1..Len(conn) :
        /\ conn[res].st = "closed"
        /\ Len(conn[res].out) > 1
        /\ ~Has(channels, conn[res].npc)
        /\ conn[other].st = "open"
        /\ Has(channels, conn[other].npc)

\* an intake body without a channel, with an empty one, or with a kind
\* outside the enumeration
Malformed(body) == body.npc \in {Absent, ""} \/ body.type \notin EventTypes

(***************************************************************************)
(* C18.  An intake request whose npc is missing or empty, or whose type is *)
(* not one of the five, is answered 400, calls hub.broadcast for nothing,  *)
(* and leaves every reply's stream and the registry as they were.          *)
(***************************************************************************)
C18_MalformedRejected ==
    [][\A body \in EventBodies :
          (Malformed(body) /\ PostEvents(body))
          => /\ last'.resp = 400
             /\ last'.calls = << >>
             /\ conn' = conn
             /\ channels' = channels]_vars

\* a malformed request was rejected while a reply was streaming, and the
\* reply has nothing but its first line
C18_Witness ==
    /\ last.op = "events"
    /\ last.resp = 400
    /\ last.calls = << >>
    /\ \E res \in 1..Len(conn) :
          conn[res].st = "open" /\ conn[res].wr = "ok" /\ conn[res].out = << ConnectedLine >>

(***************************************************************************)
(* C19.  A valid intake request makes exactly one call of hub.broadcast,   *)
(* on the channel it names, and is answered 200, whatever the registry,    *)
(* the invocations and the mapping store are.  The one call is made; the   *)
(* answer is 500 when a reply's write raises (see C9).                     *)
(***************************************************************************)
C19_ValidAcknowledged ==
    [][\A body \in EventBodies :
          (~Malformed(body) /\ PostEvents(body))
          => /\ Len(last'.calls) = 1
             /\ last'.calls[1].evt.npc = body.npc
             /\ last'.resp = 200]_vars

(***************************************************************************)
(* C20.  For a valid intake request with channel c, kind k and payload p,  *)
(* every reply registered on c whose transport is in order is sent one     *)
(* event line with k and one data line with c, k and p.  A reply that      *)
(* comes after one whose write raises is sent nothing (see C9).            *)
(***************************************************************************)
C20_Verbatim ==
    [][\A body \in EventBodies :
          (~Malformed(body) /\ PostEvents(body))
          => \A res \in Members(channels, body.npc) :
                conn[res].wr = "ok"
                => /\ Len(NewLines(res)) = 2
                   /\ NewLines(res)[1] = [line |-> "event", type |-> body.type]
                   /\ NewLines(res)[2].line = "data"
                   /\ NewLines(res)[2].payload.npc = body.npc
                   /\ NewLines(res)[2].payload.type = body.type
                   /\ NewLines(res)[2].payload.data = [json |-> body.data]]_vars

(***************************************************************************)
(* C21.  Every data line a valid intake request puts on a reply carries a  *)
(* timestamp: the producer's when the request has one, the gateway's       *)
(* otherwise.  EventSchema (events.ts:5-9) has no ts key, so the parsed    *)
(* event has lost the producer's timestamp before sse.ts:27 looks for it.  *)
(***************************************************************************)
C21_Timestamp ==
    [][\A body \in EventBodies :
          (~Malformed(body) /\ PostEvents(body))
          => \A res \in 1..Len(conn) :
                \A k \in 1..Len(NewLines(res)) :
                    NewLines(res)[k].line = "data"
                    => /\ NewLines(res)[k].payload.ts # Absent
                       /\ NewLines(res)[k].payload.ts =
                             IF body.ts = Absent THEN Now ELSE body.ts]_vars

(***************************************************************************)
(* C22.  A stream request without the npc parameter is answered 400 and    *)
(* nothing else happens: no reply is created (so none is registered, has   *)
(* a timer or is written to) and the registry is as it was.                *)
(***************************************************************************)
C22_NoChannelRejected ==
    [][(StreamReject(Absent) \/ StreamOpen(Absent))
          => /\ last'.resp = 400
             /\ last'.who = 0
             /\ conn' = conn
             /\ channels' = channels]_vars

\* a stream request was rejected while a reply was streaming
C22_Witness ==
    /\ last.op = "stream"
    /\ last.resp = 400
    /\ last.who = 0
    /\ \E res \in 1..Len(conn) : Registered(res)

(***************************************************************************)
(* C23.  A stream request with a channel registers its reply under that    *)
(* channel and writes the connected comment in the same turn; the first    *)
(* line of every reply is that comment, so no event comes before it.       *)
(***************************************************************************)
C23_ConnectedFirst ==
    /\ [][\A npc \in StreamQueries :
            StreamOpen(npc)
            => /\ Len(conn') = Len(conn) + 1
               /\ conn'[Len(conn')].npc = npc
               /\ Len(conn') \in Members(channels', npc)
               /\ conn'[Len(conn')].out = << ConnectedLine >>]_vars
    /\ [](\A res \in 1..Len(conn) :
            /\ Len(conn[res].out) >= 1
            /\ conn[res].out[1] = ConnectedLine
            /\ \A k \in 2..Len(conn[res].out) : conn[res].out[k] # ConnectedLine)

\* a reply has been sent an event after its connected comment
C23_Witness ==
    \E res \in 1..Len(conn) :
        /\ Len(conn[res].out) >= 3
        /\ conn[res].out[1] = ConnectedLine
        /\ conn[res].out[2].line = "event"

(***************************************************************************)
(* C24.  Two invocations for the same agent that have looked the agent up  *)
(* found the same row (the same npc and webhookUrl, or both none), even    *)
(* when the map file changed in between.  run.ts:17 reads the file on      *)
(* every request, so they do not.                                          *)
(***************************************************************************)
C24_MappingImmutable ==
    \A i, j \in Invocations :
        (/\ runs[i].agent = runs[j].agent
         /\ RunBodyOk(runs[i].body) /\ runs[i].pc # "readFile"
         /\ RunBodyOk(runs[j].body) /\ runs[j].pc # "readFile")
        => runs[i].row = runs[j].row

\* invocation inv is suspended on its outbound call (run.ts:29, run.ts:35)
Suspended(inv) == runs[inv].pc \in {"fetch", "text"}

(***************************************************************************)
(* C25.  While an invocation is suspended on its outbound call, every      *)
(* other request can be served (an intake request, a stream request, a     *)
(* close, a further run request, another invocation's lookup: each is      *)
(* enabled whenever the bounds of the model leave room for it), and        *)
(* serving it leaves the suspended invocation where it is.                 *)
(***************************************************************************)
C25_NotBlocking ==
    /\ [](\A inv \in Invocations :
            (Suspended(inv) /\ turns < MaxTurns)
            => /\ used.intake < MaxIntake
                    => \A body \in EventBodies : ENABLED PostEvents(body)
               /\ Len(conn) < MaxConns
                    => \A npc \in Npcs : ENABLED StreamOpen(npc)
               /\ \A res \in 1..Len(conn) :
                     conn[res].st = "open" => ENABLED StreamClose(res)
               /\ Len(runs) < MaxRuns
                    => \A req \in RunRequests : ENABLED RunRequest(req.agent, req.body)
               /\ \A other \in Invocations :
                     runs[other].pc = "readFile" => ENABLED RunLookup(other))
    /\ [][\A inv \in Invocations :
            (/\ Suspended(inv)
             /\ \/ last'.op \in {"events", "stream", "close"}
                \/ last'.op = "run" /\ last'.who # inv)
            => runs'[inv] = runs[inv]]_vars

\* between an invocation's started event and its completion, an intake
\* event reached a subscriber that registered after the started event
C25_Witness ==
    \E inv \in Invocations : \E res \in 1..Len(conn) :
        /\ Suspended(inv)
        /\ NumStarted(inv) = 1
        /\ last.op = "events"
        /\ last.resp = 200
        /\ conn[res].out = << ConnectedLine, EventLine(last.calls[1].evt),
                              DataLine(last.calls[1].evt) >>

\* invocation inv has broadcast an error event on its channel
EmittedError(inv) ==
    \E k \in 1..Len(Broadcasts(inv)) :
        /\ Broadcasts(inv)[k].evt.type = "error"
        /\ Broadcasts(inv)[k].evt.npc = runs[inv].npc

\* invocation inv was for an agent the store held, with a body RunBody accepts
Known(inv) == RunBodyOk(runs[inv].body) /\ runs[inv].row # NoRow

(***************************************************************************)
(* C26.  For an invocation of a known agent, the caller is answered 502 or *)
(* 500 exactly when the invocation broadcast an error event on its         *)
(* channel, and it broadcasts one only when its outbound call returned     *)
(* another status than success or was not completed.  A started event      *)
(* whose broadcast raises (see C9) is answered 500 with no error event.    *)
(***************************************************************************)
C26_BothWaysOrNot ==
    \A inv \in Invocations :
        Known(inv)
        => /\ runs[inv].resp \in {500, 502} <=> EmittedError(inv)
           /\ EmittedError(inv) => runs[inv].res.kind \in {"status", "cut", "reject"}

(***************************************************************************)
(* C27.  A reply is in the set of no channel but the one its stream        *)
(* request named, it is there at most once, and its channel never          *)
(* changes.                                                                *)
(***************************************************************************)
C27_ChannelFixed ==
    /\ [](\A npc \in DOMAIN channels :
            /\ \A res \in Members(channels, npc) :
                  res \in 1..Len(conn) /\ conn[res].npc = npc
            /\ \A i, j \in 1..Len(channels[npc]) :
                  channels[npc][i] = channels[npc][j] => i = j)
    /\ [][\A res \in 1..Len(conn) : conn'[res].npc = conn[res].npc]_vars

\* a reply of one channel has closed and left the registry; a reply of the
\* other channel is registered and has been sent an event
C27_Witness ==
    \E a, b \in 1..Len(conn) :
        /\ conn[a].st = "closed" /\ ~Registered(a)
        /\ conn[b].npc # conn[a].npc /\ Registered(b)
        /\ Len(conn[b].out) > 1

(***************************************************************************)
(* C28.  An invocation (with a body RunBody accepts) is answered once, in  *)
(* the step in which its outcome is known, and the answer follows the      *)
(* outcome: no row 404, outbound success 200, outbound error status 502,   *)
(* outbound call not completed 500.  An error status is answered 500       *)
(* when the broadcast of its error event raises (see C9 and C4).           *)
(***************************************************************************)
C28_OneResponse ==
    /\ [](\A inv \in Invocations :
            RunBodyOk(runs[inv].body)
            => /\ runs[inv].pc = "done" <=> runs[inv].resp # 0
               /\ runs[inv].res.kind \in {"ok", "status", "cut", "reject"}
                     => runs[inv].pc = "done"
               /\ (runs[inv].pc = "done" /\ runs[inv].row = NoRow) => runs[inv].resp = 404
               /\ runs[inv].res.kind = "ok" => runs[inv].resp = 200
               /\ runs[inv].res.kind = "status" => runs[inv].resp = 502
               /\ runs[inv].res.kind \in {"cut", "reject"} => runs[inv].resp = 500)
    /\ [][\A inv \in Invocations :
            runs[inv].resp # 0 => runs'[inv].resp = runs[inv].resp]_vars

(***************************************************************************)
(* C29.  A broadcast writes to exactly the replies that are in the         *)
(* channel's set when it starts, the registry does not change in the turn  *)
(* of a broadcast, and on every reply an event line is followed at once by *)
(* the data line of the same event.  The last two hold; a raising write    *)
(* ends the loop before the rest of the set (see C9 and C8).               *)
(***************************************************************************)
C29_Atomic ==
    /\ [](\A k \in 1..Len(last.calls) : last.calls[k].attempts = last.calls[k].subs)
    /\ [][last'.calls # << >>
            => /\ channels' = channels
               /\ \A k \in 1..Len(last'.calls) :
                     last'.calls[k].subs =
                        IF Has(channels, last'.calls[k].evt.npc)
                        THEN channels[last'.calls[k].evt.npc] ELSE << >>]_vars
    /\ [](\A res \in 1..Len(conn) : \A k \in 1..Len(conn[res].out) :
            /\ conn[res].out[k].line = "event"
                  => /\ k < Len(conn[res].out)
                     /\ conn[res].out[k + 1].line = "data"
                     /\ conn[res].out[k + 1].payload.type = conn[res].out[k].type
            /\ conn[res].out[k].line = "data"
                  => k > 1 /\ conn[res].out[k - 1].line = "event")

(***************************************************************************)
(* C30.  A reply leaves the registry only in the step of its own close     *)
(* listener: no broadcast, run or intake request, keep-alive tick,         *)
(* registration or close of another reply takes it out.                    *)
(***************************************************************************)
C30_Persists ==
    [][\A res \in 1..Len(conn) :
          (Registered(res) /\ ~Registered(res)')
          => last'.op = "close" /\ last'.who = res]_vars

\* a reply whose write raised in a broadcast is still registered, after the
\* other reply of its channel has closed
C30_Witness ==
    \E res, other \in 1..Len(conn) :
        /\ Registered(res)
        /\ conn[res].wr = "throw"
        /\ last.op = "events" /\ last.resp = 500
        /\ conn[other].npc = conn[res].npc
        /\ conn[other].st = "closed"

(***************************************************************************)
(* C31.  The outbound POST of an invocation goes to the webhookUrl of the  *)
(* row the store holds for the agent, and its body holds the caller's      *)
(* payload ({} when the caller sent none), the agent, and the channel of   *)
(* the invocation's started event, which was broadcast before it.          *)
(***************************************************************************)
C31_PostContents ==
    /\ [](\A inv \in Invocations :
            /\ Len(Posts(inv)) <= 1
            /\ Len(Posts(inv)) = 1
                  => /\ Len(runs[inv].fx) >= 2
                     /\ runs[inv].fx[1].fx = "broadcast"
                     /\ runs[inv].fx[1].evt.type = "started"
                     /\ runs[inv].fx[2] = Posts(inv)[1]
                     /\ Posts(inv)[1].url = runs[inv].row.webhookUrl
                     /\ runs[inv].row.agent = runs[inv].agent
                     /\ Posts(inv)[1].body.agent = runs[inv].agent
                     /\ Posts(inv)[1].body.npc = runs[inv].fx[1].evt.npc
                     /\ Posts(inv)[1].body.payload =
                           IF runs[inv].body.payload = Absent
                           THEN "{}" ELSE runs[inv].body.payload)
    /\ [][\A inv \in Invocations :
            (Len(Posts(inv)) = 0 /\ Len(Posts(inv)') = 1)
            => /\ InStore(mapFile, runs[inv].agent)
               /\ \E k \in 1..Len(mapFile.rows) : mapFile.rows[k] = runs'[inv].row]_vars

\* a post was made for a caller who sent no payload, and another for a
\* caller who sent one
C31_Witness ==
    \E i, j \in Invocations :
        /\ Len(Posts(i)) = 1 /\ runs[i].body.payload = Absent
        /\ Len(Posts(j)) = 1 /\ runs[j].body.payload # Absent

(***************************************************************************)
(* C32.  A keep-alive tick is for an open reply, appends at most the       *)
(* keep-alive comment to that reply, and changes no other reply, no        *)
(* invocation and not the registry; nothing is written to a reply after    *)
(* its close listener has run.                                             *)
(***************************************************************************)
C32_KeepAliveFrame ==
    /\ [][last'.op = "tick"
            => /\ conn[last'.who].st = "open"
               /\ \/ conn' = conn
                  \/ conn' = [conn EXCEPT ![last'.who].out = Append(@, KeepAliveLine)]
               /\ channels' = channels
               /\ runs' = runs]_vars
    /\ [][\A res \in 1..Len(conn) :
            conn[res].st = "closed" => conn'[res] = conn[res]]_vars

\* a tick has written its comment to a reply that had been sent an event,
\* after another reply has closed
C32_Witness ==
    /\ last.op = "tick"
    /\ LET out == conn[last.who].out
       IN  /\ Len(out) >= 4
           /\ out[Len(out)] = KeepAliveLine
           /\ out[Len(out) - 1].line = "data"
    /\ \E other \in 1..Len(conn) : conn[other].st = "closed"

(***************************************************************************)
(* C33.  No turn that calls hub.broadcast changes the registry, whether    *)
(* the channel has subscribers or not and whether a write raises, is lost  *)
(* or succeeds.                                                            *)
(***************************************************************************)
C33_BroadcastFrame ==
    [][last'.calls # << >> => channels' = channels]_vars

\* a broadcast has raised on a reply, and the registry still holds it
C33_Witness ==
    /\ last.calls # << >>
    /\ last.calls[1].raised
    /\ \A k \in 1..Len(last.calls[1].subs) : Registered(last.calls[1].subs[k])
    /\ \E npc \in Npcs : ~Has(channels, npc)

\* the members of a channel's set other than res, in their order
Others(ch, npc, res) == IF Has(ch, npc) THEN Without(ch[npc], res) ELSE << >>

(***************************************************************************)
(* C34.  On every registry the hub reaches, SseHub.add and SseHub.remove   *)
(* of a reply on a channel leave every other channel's entry as it is and  *)
(* the other members of the channel's set as they are; add makes the       *)
(* reply a member and remove makes it none.                                *)
(***************************************************************************)
C34_RegisterFrame ==
    \A npc \in Npcs : \A res \in Replies :
        LET added == HubAdd(channels, npc, res)
            removed == HubRemove(channels, npc, res)
        IN  /\ res \in Members(added, npc)
            /\ res \notin Members(removed, npc)
            /\ Others(added, npc, res) = Others(channels, npc, res)
            /\ Others(removed, npc, res) = Others(channels, npc, res)
            /\ \A other \in Npcs \ {npc} :
                  /\ Has(added, other) <=> Has(channels, other)
                  /\ Has(removed, other) <=> Has(channels, other)
                  /\ Has(channels, other)
                        => added[other] = channels[other] /\ removed[other] = channels[other]

\* a reply has been unregistered from a channel that has another member
C34_Witness ==
    /\ last.op = "close"
    /\ \E other \in 1..Len(conn) :
          /\ other # last.who
          /\ conn[other].npc = conn[last.who].npc
          /\ Registered(other)

\* the event and data lines a step adds to the stream of reply res
NewEvents(res) == SelectSeq(NewLines(res), LAMBDA l : l.line # "comment")

\* the lines the calls of hub.broadcast in a turn write for channel npc, in
\* the order of the calls
RECURSIVE CallLines(_, _)
CallLines(calls, npc) ==
    IF calls = << >>
    THEN << >>
    ELSE (IF Head(calls).evt.npc = npc
          THEN << EventLine(Head(calls).evt), DataLine(Head(calls).evt) >>
          ELSE << >>) \o CallLines(Tail(calls), npc)

\* reply res is registered and its transport is in order
Healthy(res) == Registered(res) /\ conn[res].wr = "ok"

(***************************************************************************)
(* C35.  In every step, two replies that are registered on the same        *)
(* channel with their transports in order are sent the same events, and    *)
(* what a reply is sent follows the order of the broadcasts.  The order    *)
(* holds; a reply that comes after one whose write raises is not sent what *)
(* a reply before it is sent (see C9).                                     *)
(***************************************************************************)
C35_OrderAndAgreement ==
    [][\A a \in 1..Len(conn) :
          Healthy(a)
          => /\ \A b \in 1..Len(conn) :
                   (Healthy(b) /\ conn[b].npc = conn[a].npc)
                   => NewEvents(a) = NewEvents(b)
             /\ LET lines == CallLines(last'.calls, conn[a].npc)
                IN  \E i \in 1..(Len(lines) + 1) : \E j \in 0..Len(lines) :
                       NewEvents(a) = SubSeq(lines, i, j)]_vars

\* sequence s is the beginning of sequence t
IsPrefix(s, t) == Len(s) <= Len(t) /\ SubSeq(t, 1, Len(s)) = s

(***************************************************************************)
(* C36.  When the outbound POST of an invocation is made, the started      *)
(* event has been broadcast, in that same turn and before it: every reply  *)
(* registered on the run's channel with its transport in order has the     *)
(* started event's two lines as its last.  A reply's stream only grows at  *)
(* its end, so whatever an intake request made after the POST puts on the  *)
(* reply comes after the started event.                                    *)
(***************************************************************************)
C36_StartedFirst ==
    /\ [][\A inv \in 1..Len(runs') :
            (Len(Posts(inv)') = 1 /\ (inv > Len(runs) \/ Len(Posts(inv)) = 0))
            => /\ inv <= Len(runs)
               /\ runs'[inv].fx[1] = FxBroadcast(StartedEvt(runs'[inv].npc, runs'[inv].agent))
               /\ \A res \in 1..Len(conn) :
                     (Healthy(res) /\ conn[res].npc = runs'[inv].npc)
                     => NewEvents(res) =
                           << EventLine(StartedEvt(runs'[inv].npc, runs'[inv].agent)),
                              DataLine(StartedEvt(runs'[inv].npc, runs'[inv].agent)) >>]_vars
    /\ [][\A res \in 1..Len(conn) : IsPrefix(conn[res].out, conn'[res].out)]_vars

\* a reply registered throughout has the started event of a run and then
\* the event of an intake request made after the run's POST
C36_Witness ==
    \E inv \in Invocations : \E res \in 1..Len(conn) :
        /\ Len(Posts(inv)) = 1
        /\ last.op = "events" /\ last.calls # << >>
        /\ conn[res].out =
              << ConnectedLine,
                 EventLine(StartedEvt(runs[inv].npc, runs[inv].agent)),
                 DataLine(StartedEvt(runs[inv].npc, runs[inv].agent)),
                 EventLine(last.calls[1].evt), DataLine(last.calls[1].evt) >>

(***************************************************************************)
(* C37.  An invocation broadcasts at most two events, on one channel: its  *)
(* started event first and then at most one error event.  An error event   *)
(* whose broadcast raises is followed by a second one from the catch       *)
(* block (see C9 and C4).                                                  *)
(***************************************************************************)
C37_AtMostTwoEvents ==
    \A inv \in Invocations :
        LET b == Broadcasts(inv)
        IN  /\ Len(b) <= 2
            /\ \A k \in 1..Len(b) :
                  /\ b[k].evt.npc = b[1].evt.npc
                  /\ b[k].evt.type = IF k = 1 THEN "started" ELSE "error"

(***************************************************************************)
(* C38.  A run request (with a body RunBody accepts) whose read of the     *)
(* map file fails is answered 404 like one for an unknown agent: no event  *)
(* is broadcast, no webhook is called, and no reply's stream changes.      *)
(***************************************************************************)
C38_UnreadableIsEmpty ==
    [][\A inv \in Invocations :
          (runs[inv].pc = "readFile" /\ runs'[inv].pc # "readFile" /\ ~mapFile.readable)
          => /\ runs'[inv].pc = "done"
             /\ runs'[inv].resp = 404
             /\ last'.resp = 404
             /\ runs'[inv].fx = << >>
             /\ last'.calls = << >>
             /\ conn' = conn
             /\ channels' = channels]_vars

\* a request for the agent the file held before it became unreadable was
\* answered 404 while a reply was streaming the agent's channel
C38_Witness ==
    \E inv \in Invocations : \E res \in 1..Len(conn) :
        /\ ~mapFile.readable
        /\ last.op = "run" /\ last.who = inv
        /\ runs[inv].agent = "scheduler"
        /\ runs[inv].resp = 404
        /\ Healthy(res)
        /\ conn[res].npc = "scheduler"
        /\ conn[res].out = << ConnectedLine >>

====
